---------------------------- MODULE Spec2Model ----------------------------
(***************************************************************************)
(* Model of space_command (src/src/main.rs): the difficulty curve, the     *)
(* bullet life cycle and the frame loop of main().                         *)
(*                                                                         *)
(* Numbers.  The program computes in f32.  In the frame-loop model the     *)
(* reals are exact fixed-point rationals:                                  *)
(*   time            in tenths of a second        (TimeScale  = 10)        *)
(*   missile_speed   in tenths of a unit/second   (SpeedScale = 10)        *)
(*   missile_spawn_rate in tenths, explosion_size in hundredths            *)
(*   positions       in 1/500 of a length unit    (PosScale   = 500)       *)
(*   velocities      in position units per time unit                       *)
(* The one claim that f32 rounding decides (the arrival tick of a bullet   *)
(* stepped with dt = 1/60) has its own specification, SpecFlight, which    *)
(* computes in f32 (F32Round: 24-bit significands, ties to even).          *)
(***************************************************************************)
EXTENDS Integers, Sequences, FiniteSets, TLC

VARIABLES
    started,          \* game.started
    difficulty,       \* main's `difficulty`
    bullets,          \* main's `bullets`
    time_since_spawn, \* main's `time_since_spawn`
    clock,            \* simulated time elapsed since the simulation started
    spawnCount,       \* history: number of bullets pushed so far (next id - 1)
    keys,             \* history: the keyboard state of the last frame
    pre,              \* history: `difficulty` at the start of the last frame
    phases,           \* history: the registry after each phase of the last tick
    draws,            \* history: id -> number of times its explosion was drawn
    detAge,           \* history: id -> 0 not detonated, 1 detonated this tick,
                      \*          2 detonated the tick before, 3 earlier
    fl,               \* SpecFlight: the bullet stepped in f32 arithmetic
    ex,               \* SpecExplode: the bullet explode() is called on
    twin,             \* SpecTwin: a second run fed the same inputs
    sched             \* SpecSched: history of the frame times and the spawns

vars == <<started, difficulty, bullets, time_since_spawn, clock, spawnCount,
          keys, pre, phases, draws, detAge, fl, ex, twin, sched>>

simVars == <<started, difficulty, bullets, time_since_spawn, clock, spawnCount,
             keys, pre, phases, draws, detAge>>

---------------------------------------------------------------------------
(* Scales and bounds *)

TimeScale == 10
SpeedScale == 10
PosScale == 500

\* Bounds of the model.
MaxRound == 9
MaxClock == 30

\* get_frame_time() of a frame, in tenths of a second.
DtSet == {3, 6}

\* screen_height() and screen_width(), in length units.
ScreenHeight == 45
ScreenWidth == 80

Abs(x) == IF x < 0 THEN -x ELSE x

\* Integer square root (floor), by bisection: the root lies in lo..hi.
RECURSIVE SqrtIn(_, _, _)
SqrtIn(n, lo, hi) ==
    IF lo >= hi THEN lo
    ELSE LET mid == (lo + hi + 1) \div 2
         IN  IF mid * mid <= n THEN SqrtIn(n, mid, hi) ELSE SqrtIn(n, lo, mid - 1)
ISqrt(n) == SqrtIn(n, 0, IF n < 46340 THEN n ELSE 46340)

\* The values rand::gen_range(0., screen_height()) and rand::gen_range(0.,
\* screen_width()) draw for <<source.x, target.x>>: a vertical path from x = 0,
\* a vertical path from x = 30, and a diagonal of length 75 (a 3-4-5 triangle),
\* for which the direction normalizes exactly.
Draws ==
    { d \in { <<0, 0>>, <<30, 30>>, <<0, 60>> } :
        d[1] < ScreenHeight /\ d[2] < ScreenWidth }

---------------------------------------------------------------------------
(* Difficulty *)

\* Difficulty::new
DifficultyNew ==
    [ missile_spawn_rate |-> 30,     \* 3.
      missile_speed      |-> 500,    \* 50.
      missile_rounds     |-> 10,
      round              |-> 1,
      explosion_size     |-> 10000 ] \* 100.

\* A reset that forgets the round counter.
DifficultyResetKeepsRound(d) ==
    [ d EXCEPT !.missile_spawn_rate = 30,
               !.missile_speed = 500,
               !.missile_rounds = 10,
               !.explosion_size = 10000 ]

\* Difficulty::reset
DifficultyReset(d) ==
    [ d EXCEPT !.missile_spawn_rate = 30,
               !.missile_speed = 500,
               !.missile_rounds = 10,
               !.round = 1,
               !.explosion_size = 10000 ]

\* An escalation whose size delta reads the round before its increment.
IncreaseDifficultyOldRound(d) ==
    [ d EXCEPT !.missile_spawn_rate = @ - 1 * d.round,
               !.missile_speed = @ + 11 * d.round,
               !.missile_rounds = @ + 1 * d.round,
               !.round = @ + 1,
               !.explosion_size = @ - 1 * d.round ]

\* An escalation whose spawn-rate delta is not scaled by the round.
IncreaseDifficultyFlatRate(d) ==
    [ d EXCEPT !.missile_spawn_rate = @ - 1,
               !.missile_speed = @ + 11 * d.round,
               !.missile_rounds = @ + 1 * d.round,
               !.round = @ + 1,
               !.explosion_size = @ - 1 * (d.round + 1) ]

\* Difficulty::increase_difficulty: the size delta reads the incremented round.
IncreaseDifficulty(d) ==
    LET d1 == [ d  EXCEPT !.missile_spawn_rate = @ - 1 * d.round ]   \* 0.1 * round
        d2 == [ d1 EXCEPT !.missile_speed = @ + 11 * d1.round ]      \* 1.1 * round
        d3 == [ d2 EXCEPT !.missile_rounds = @ + 1 * d2.round ]
        d4 == [ d3 EXCEPT !.round = @ + 1 ]
    IN  [ d4 EXCEPT !.explosion_size = @ - 1 * d4.round ]            \* 0.01 * round

---------------------------------------------------------------------------
(* Bullet *)

NoExplosion == [ none |-> TRUE ]

\* Bullet::new
BulletNew(id, source, target, velocity) ==
    [ id        |-> id,
      source    |-> source,
      position  |-> source,
      velocity  |-> velocity,
      target    |-> target,
      color     |-> "RED",
      explosion |-> NoExplosion,
      exploding |-> FALSE,
      exploded  |-> FALSE ]

\* An explode without its guard.
ExplodeUnguarded(b, color, size, time, duration, flash) ==
    [ b EXCEPT
        !.explosion = [ position   |-> b.position,
                        color      |-> color,
                        size       |-> size,
                        spawn_time |-> time,
                        duration   |-> duration,
                        flash      |-> flash ],
        !.exploding = TRUE ]

\* An explode that sets the flag and writes no record.
ExplodeNoRecord(b, color, size, time, duration, flash) ==
    IF b.exploding \/ b.exploded THEN b ELSE [ b EXCEPT !.exploding = TRUE ]

\* An explode() that marks the bullet exploded at once.
ExplodeSetsExploded(b, color, size, time, duration, flash) ==
    IF b.exploding \/ b.exploded
    THEN b
    ELSE [ b EXCEPT
             !.explosion = [ position   |-> b.position,
                             color      |-> color,
                             size       |-> size,
                             spawn_time |-> time,
                             duration   |-> duration,
                             flash      |-> flash ],
             !.exploded = TRUE ]

\* Bullet::explode
Explode(b, color, size, time, duration, flash) ==
    IF b.exploding \/ b.exploded
    THEN b
    ELSE [ b EXCEPT
             !.explosion = [ position   |-> b.position,
                             color      |-> color,
                             size       |-> size,
                             spawn_time |-> time,
                             duration   |-> duration,
                             flash      |-> flash ],
             !.exploding = TRUE ]

\* An at_target with a radius of 2.
AtTargetNarrow(b) ==
    LET dx == b.position[1] - b.target[1]
        dy == b.position[2] - b.target[2]
        r  == 2 * PosScale
    IN  /\ Abs(dx) < r
        /\ Abs(dy) < r
        /\ dx * dx + dy * dy < r * r

\* Bullet::at_target: (position - target).length() < 5.  The squares are taken
\* only when both components are inside the radius, which keeps them small.
AtTarget(b) ==
    LET dx == b.position[1] - b.target[1]
        dy == b.position[2] - b.target[2]
        r  == 5 * PosScale
    IN  /\ Abs(dx) < r
        /\ Abs(dy) < r
        /\ dx * dx + dy * dy < r * r

---------------------------------------------------------------------------
(* The frame loop of main() *)

Vec(x, y) == <<x, y>>

\* (target - source).normalize() * speed, in position units per time unit.
SpawnVelocity(source, target, speed) ==
    LET dx  == target[1] - source[1]
        dy  == target[2] - source[2]
        len == ISqrt(dx * dx + dy * dy)
        k   == PosScale \div (SpeedScale * TimeScale)
    IN  Vec((dx * speed * k) \div len, (dy * speed * k) \div len)

\* Lines 351-359: the accumulator and the spawn.
SpawnDue(t) == t > 1 * TimeScale

Spawn(bs, d, id, draw) ==
    LET source   == Vec(draw[1] * PosScale, 0)
        target   == Vec(draw[2] * PosScale, ScreenHeight * PosScale)
        velocity == SpawnVelocity(source, target, d.missile_speed)
    IN  Append(bs, BulletNew(id, source, target, velocity))

\* A drawing loop that clears `exploding` and forgets to set `exploded`.
DrawBulletRevives(b, dt) ==
    LET b1 == IF b.exploding THEN [ b EXCEPT !.exploding = FALSE ] ELSE b
    IN  [ b1 EXCEPT !.position = Vec(@[1] + b1.velocity[1] * dt,
                                     @[2] + b1.velocity[2] * dt) ]

\* A drawing loop that also accelerates the bullet downwards.
DrawBulletAccelerates(b, dt) ==
    LET b1 == IF b.exploding
              THEN [ b EXCEPT !.exploding = FALSE, !.exploded = TRUE ]
              ELSE b
    IN  [ b1 EXCEPT !.position = Vec(@[1] + b1.velocity[1] * dt,
                                     @[2] + b1.velocity[2] * dt),
                    !.velocity = Vec(@[1], @[2] + dt) ]

\* A drawing loop that leaves a detonated bullet Exploding and where it is.
DrawBulletStaysExploding(b, dt) ==
    IF b.exploding
    THEN b
    ELSE [ b EXCEPT !.position = Vec(@[1] + b.velocity[1] * dt,
                                     @[2] + b.velocity[2] * dt) ]

\* Lines 364-375: one iteration of the drawing loop.
DrawBullet(b, dt) ==
    LET b1 == IF b.exploding
              THEN [ b EXCEPT !.exploding = FALSE, !.exploded = TRUE ]
              ELSE b
    IN  [ b1 EXCEPT !.position = Vec(@[1] + b1.velocity[1] * dt,
                                     @[2] + b1.velocity[2] * dt) ]

DrawAll(bs, dt) == [ i \in DOMAIN bs |-> DrawBullet(bs[i], dt) ]

\* A retain that tests the wrong flag.
RetainNotExploding(bs) == SelectSeq(bs, LAMBDA b : ~b.exploding)

\* A retain that also drops the bullets that have left the screen.
RetainOnScreen(bs) ==
    SelectSeq(bs, LAMBDA b : ~b.exploded /\ b.position[2] <= ScreenHeight * PosScale)

\* Lines 379-381 and 395-397: bullets.retain(|bullet| !bullet.exploded)
Retain(bs) == SelectSeq(bs, LAMBDA b : ~b.exploded)

\* Lines 389-393: the arrival check.  `now` stands for get_time(): the
\* simulated time at the frame.
CheckBullet(b, now) ==
    IF AtTarget(b) THEN Explode(b, "RED", 50, now, 1 * TimeScale, FALSE) ELSE b

CheckAll(bs, now) == [ i \in DOMAIN bs |-> CheckBullet(bs[i], now) ]

Ids(bs) == { bs[i].id : i \in DOMAIN bs }

\* A loop body whose random draws come from a generator seeded by get_time().
TickPhasesTimeSeeded(bs, d, t, id, dt, draw, now) ==
    LET due       == SpawnDue(t + dt)
        seeded    == <<(now * 7) % ScreenHeight, (now * 13) % ScreenWidth>>
        spawned   == IF due THEN Spawn(bs, d, id, seeded) ELSE bs
        moved     == DrawAll(spawned, dt)
        pruned    == Retain(moved)
        detonated == CheckAll(pruned, now)
        final     == Retain(detonated)
    IN  [ due |-> due, start |-> bs, spawned |-> spawned, moved |-> moved,
          pruned |-> pruned, detonated |-> detonated, final |-> final ]

\* A loop body that runs the arrival check before the bullets are moved.
TickPhasesCheckFirst(bs, d, t, id, dt, draw, now) ==
    LET due       == SpawnDue(t + dt)
        spawned   == IF due THEN Spawn(bs, d, id, draw) ELSE bs
        checked   == CheckAll(spawned, now)
        moved     == DrawAll(checked, dt)
        pruned    == Retain(moved)
    IN  [ due |-> due, start |-> bs, spawned |-> spawned, moved |-> moved,
          pruned |-> pruned, detonated |-> pruned, final |-> Retain(pruned) ]

\* A loop body that spawns when the accumulator exceeds the difficulty's
\* missile_spawn_rate.
TickPhasesConfiguredRate(bs, d, t, id, dt, draw, now) ==
    LET due       == t + dt > d.missile_spawn_rate
        spawned   == IF due THEN Spawn(bs, d, id, draw) ELSE bs
        moved     == DrawAll(spawned, dt)
        pruned    == Retain(moved)
        detonated == CheckAll(pruned, now)
        final     == Retain(detonated)
    IN  [ due |-> due, start |-> bs, spawned |-> spawned, moved |-> moved,
          pruned |-> pruned, detonated |-> detonated, final |-> final ]

\* The registry after each phase of one pass of the loop body.
TickPhases(bs, d, t, id, dt, draw, now) ==
    LET due       == SpawnDue(t + dt)
        spawned   == IF due THEN Spawn(bs, d, id, draw) ELSE bs
        moved     == DrawAll(spawned, dt)
        pruned    == Retain(moved)
        detonated == CheckAll(pruned, now)
        final     == Retain(detonated)
    IN  [ due |-> due, start |-> bs, spawned |-> spawned, moved |-> moved,
          pruned |-> pruned, detonated |-> detonated, final |-> final ]

NoPhases ==
    [ due |-> FALSE, start |-> <<>>, spawned |-> <<>>, moved |-> <<>>,
      pruned |-> <<>>, detonated |-> <<>>, final |-> <<>> ]

NoKeys == [ space |-> FALSE, ctrlR |-> FALSE, ctrlI |-> FALSE, game |-> FALSE ]

FlightInit == [ tick |-> 0, x |-> 0, y |-> 0 ]

ExIdle == [ calls |-> 0 ]

TwinIdle == [ offset |-> 0 ]

SchedIdle == [ dts |-> <<>>, spawns |-> <<>> ]

\* The variables of the other specifications.
auxVars == <<fl, ex, twin, sched>>

SimInit ==
    /\ started = FALSE
    /\ difficulty = DifficultyNew
    /\ bullets = <<>>
    /\ time_since_spawn = 0
    /\ clock = 0
    /\ spawnCount = 0
    /\ keys = NoKeys
    /\ pre = DifficultyNew
    /\ phases = NoPhases
    /\ draws = <<>>
    /\ detAge = <<>>

Init ==
    /\ SimInit
    /\ fl = FlightInit
    /\ ex = ExIdle
    /\ twin = TwinIdle
    /\ sched = SchedIdle

\* Lines 317-322: the menu's commands, Ctrl+R before Ctrl+I.
MenuCommands(d, ctrlR, ctrlI) ==
    LET d1 == IF ctrlR THEN DifficultyReset(d) ELSE d
    IN  IF ctrlI THEN IncreaseDifficulty(d1) ELSE d1

\* A running loop that also handles Ctrl+I.
GameCommandsWithEscalate(d, ctrlR, ctrlI) ==
    LET d1 == IF ctrlR THEN DifficultyReset(d) ELSE d
    IN  IF ctrlI THEN IncreaseDifficulty(d1) ELSE d1

\* Lines 343-345: the running loop's command.
GameCommands(d, ctrlR, ctrlI) ==
    IF ctrlR THEN DifficultyReset(d) ELSE d

\* Lines 300-328, a pass of the menu loop that does not break: Space is up.
MenuStep(ctrlR, ctrlI) ==
    /\ ~started
    /\ ctrlI => difficulty.round < MaxRound
    /\ difficulty' = MenuCommands(difficulty, ctrlR, ctrlI)
    /\ keys' = [ space |-> FALSE, ctrlR |-> ctrlR, ctrlI |-> ctrlI, game |-> FALSE ]
    /\ pre' = difficulty
    /\ UNCHANGED <<started, bullets, time_since_spawn, clock, spawnCount,
                   phases, draws, detAge>>

MenuFrame(ctrlR, ctrlI) ==
    /\ MenuStep(ctrlR, ctrlI)
    /\ UNCHANGED auxVars

\* Lines 331-399, one pass of the running loop.
Tick(space, ctrlR, ctrlI, dt, draw) ==
    /\ clock + dt <= MaxClock
    /\ \E d \in { GameCommands(difficulty, ctrlR, ctrlI) } :
       \E ph \in { TickPhases(bullets, d, time_since_spawn, spawnCount + 1,
                               dt, draw, clock + dt) } :
       \E n \in { IF ph.due THEN spawnCount + 1 ELSE spawnCount } :
        /\ started' = TRUE
        /\ difficulty' = d
        /\ phases' = ph
        /\ time_since_spawn' = IF ph.due THEN 0 ELSE time_since_spawn + dt
        /\ bullets' = ph.final
        /\ clock' = clock + dt
        /\ spawnCount' = n
        /\ keys' = [ space |-> space, ctrlR |-> ctrlR, ctrlI |-> ctrlI,
                     game |-> TRUE ]
        /\ pre' = difficulty
        /\ draws' = [ i \in 1..n |->
                        (IF i \in DOMAIN draws THEN draws[i] ELSE 0)
                        + Cardinality({ j \in DOMAIN ph.spawned :
                              /\ ph.spawned[j].id = i
                              /\ ph.spawned[j].exploding
                              /\ ph.spawned[j].explosion # NoExplosion }) ]
        /\ detAge' = [ i \in 1..n |->
                        LET old == IF i \in DOMAIN detAge THEN detAge[i] ELSE 0
                        IN  IF old > 0 THEN (IF old < 3 THEN old + 1 ELSE 3)
                            ELSE IF \E j \in DOMAIN ph.detonated :
                                      /\ ph.detonated[j].id = i
                                      /\ ph.detonated[j].exploding
                                 THEN 1 ELSE 0 ]

\* Lines 314-316 and 329: Space breaks the menu loop within the frame, and the
\* running loop's body follows in the same frame.
StartFrame(ctrlR, ctrlI, dt, draw) ==
    /\ ~started
    /\ Tick(TRUE, ctrlR, ctrlI, dt, draw)
    /\ UNCHANGED auxVars

GameFrame(space, ctrlR, ctrlI, dt, draw) ==
    /\ started
    /\ Tick(space, ctrlR, ctrlI, dt, draw)
    /\ UNCHANGED auxVars

Next ==
    \/ \E ctrlR \in BOOLEAN, ctrlI \in BOOLEAN : MenuFrame(ctrlR, ctrlI)
    \/ \E ctrlR \in BOOLEAN, ctrlI \in BOOLEAN, dt \in DtSet, draw \in Draws :
          StartFrame(ctrlR, ctrlI, dt, draw)
    \/ \E ctrlR \in BOOLEAN, ctrlI \in BOOLEAN, dt \in DtSet, draw \in Draws :
          GameFrame(FALSE, ctrlR, ctrlI, dt, draw)

Spec == Init /\ [][Next]_vars

---------------------------------------------------------------------------
(* SpecFlight: Bullet::new((0,0), (0,100), (0,50)) stepped by line 374 with *)
(* get_frame_time() = 1/60 on every frame, in f32.                          *)
(* Positions are integers in units of 2^-24, the frame time in units of    *)
(* 2^-29 (the f32 nearest to 1/60 is 8947849 * 2^-29).                      *)

MaxFlightTicks == 121   \* bound: the flight is followed for this many frames

Pow2(n) == 2 ^ n

\* The unit in the last place of the f32 significand that holds x.
RECURSIVE UlpFrom(_, _)
UlpFrom(x, u) == IF x \div u < Pow2(24) THEN u ELSE UlpFrom(x, 2 * u)

\* A rounding toward zero: the significand is cut to 24 bits.
F32Truncate(x) == (x \div UlpFrom(x, 1)) * UlpFrom(x, 1)

\* Rounding of an exact non-negative result to f32: 24 significant bits,
\* round to nearest, ties to even.  Independent of the unit x is counted in.
F32Round(x) ==
    LET u == UlpFrom(x, 1)
        q == x \div u
        r == x % u
    IN  IF 2 * r > u \/ (2 * r = u /\ q % 2 = 1) THEN (q + 1) * u ELSE q * u

\* The f32 literal nearest to 1/60, in units of 2^-29.
FrameTime60 == (Pow2(29) + 30) \div 60

\* velocity * get_frame_time(): v a whole number, the product rounded to f32
\* and converted from units of 2^-29 to units of 2^-24.
F32Displacement(v, dt) == F32Round(v * dt) \div Pow2(5)

\* Line 374 in f32: position += velocity * get_frame_time().
FlightMove(f, dt) ==
    [ f EXCEPT !.tick = @ + 1,
               !.x = F32Round(@ + F32Displacement(0, dt)),
               !.y = F32Round(@ + F32Displacement(50, dt)) ]

\* Bullet::at_target in f32 for the target (0,100): the difference is rounded
\* to f32.  With x = 0 the length is sqrt(fl(d*d)) for d = y - 100, which is
\* < 5 exactly when |d| < 5 for every d of this flight (d is a multiple of
\* 2^-17 near the radius); the square itself exceeds the checker's integers.
FlightAtTarget(f) ==
    /\ f.x = 0
    /\ F32Round(Abs(f.y - 100 * Pow2(24))) < 5 * Pow2(24)

FlightStep ==
    /\ fl.tick < MaxFlightTicks
    /\ fl' = FlightMove(fl, FrameTime60)
    /\ UNCHANGED <<simVars, ex, twin, sched>>

SpecFlight == Init /\ [][FlightStep]_vars

---------------------------------------------------------------------------
(* SpecExplode: Bullet::explode called any number of times, with any       *)
(* arguments, on one bullet, interleaved with the drawing loop's step.     *)

MaxCalls == 3   \* bound: explode() is called at most this many times
MaxSteps == 2   \* bound: the drawing loop steps the bullet at most this often

ExArgs ==
    [ color : {"RED", "WHITE"}, size : {50, 100}, time : {0, 7},
      duration : {1 * TimeScale}, flash : BOOLEAN ]

ExInit ==
    /\ SimInit
    /\ fl = FlightInit
    /\ twin = TwinIdle
    /\ sched = SchedIdle
    /\ \E draw \in Draws :
         ex = [ calls   |-> 0,
                steps   |-> 0,
                b       |-> Spawn(<<>>, DifficultyNew, 1, draw)[1],
                made    |-> <<>>,     \* history: the records explode() wrote
                first   |-> NoExplosion, \* history: what the first call was given
                guarded |-> TRUE ]    \* history: no call changed a detonated bullet

ExCall(a) ==
    LET b1 == Explode(ex.b, a.color, a.size, a.time, a.duration, a.flash)
    IN  /\ ex.calls < MaxCalls
        /\ ex' = [ ex EXCEPT
                     !.calls = @ + 1,
                     !.b = b1,
                     !.made = IF b1.explosion # ex.b.explosion
                              THEN Append(@, b1.explosion) ELSE @,
                     !.first = IF ex.calls = 0
                               THEN [ position |-> ex.b.position, color |-> a.color,
                                      size |-> a.size, spawn_time |-> a.time,
                                      duration |-> a.duration, flash |-> a.flash ]
                               ELSE @,
                     !.guarded = @ /\ ((ex.b.exploding \/ ex.b.exploded) => b1 = ex.b) ]
        /\ UNCHANGED <<simVars, fl, twin, sched>>

\* The drawing loop's step on the bullet (Exploding becomes Exploded, and the
\* bullet moves).
ExDraw(dt) ==
    /\ ex.steps < MaxSteps
    /\ ex' = [ ex EXCEPT !.steps = @ + 1, !.b = DrawBullet(@, dt) ]
    /\ UNCHANGED <<simVars, fl, twin, sched>>

ExNext ==
    \/ \E a \in ExArgs : ExCall(a)
    \/ \E dt \in DtSet : ExDraw(dt)

SpecExplode == ExInit /\ [][ExNext]_vars

---------------------------------------------------------------------------
(* SpecTwin: the program run twice on the same frame times, keys and random
   draws.  The two runs differ in what get_time() returns: the second run's
   clock is ahead of the first's by twin.offset. *)

TwinOffsets == {1, 4}

TwinInit ==
    /\ SimInit
    /\ fl = FlightInit
    /\ ex = ExIdle
    /\ sched = SchedIdle
    /\ twin \in { [ offset |-> o, difficulty |-> DifficultyNew, bullets |-> <<>>,
                     time_since_spawn |-> 0, spawnCount |-> 0 ] : o \in TwinOffsets }

\* Lines 300-328 in the second run.
TwinMenu(ctrlR, ctrlI) ==
    twin' = [ twin EXCEPT !.difficulty = MenuCommands(@, ctrlR, ctrlI) ]

\* Lines 331-399 in the second run.
TwinTick(ctrlR, ctrlI, dt, draw) ==
    \E d \in { GameCommands(twin.difficulty, ctrlR, ctrlI) } :
    \E ph \in { TickPhases(twin.bullets, d, twin.time_since_spawn,
                            twin.spawnCount + 1, dt, draw,
                            clock + dt + twin.offset) } :
        twin' = [ offset |-> twin.offset,
                  difficulty |-> d,
                  bullets |-> ph.final,
                  time_since_spawn |-> IF ph.due THEN 0
                                       ELSE twin.time_since_spawn + dt,
                  spawnCount |-> IF ph.due THEN twin.spawnCount + 1
                                 ELSE twin.spawnCount ]

TwinMenuFrame(ctrlR, ctrlI) ==
    /\ MenuStep(ctrlR, ctrlI)
    /\ TwinMenu(ctrlR, ctrlI)
    /\ UNCHANGED <<fl, ex, sched>>

TwinStartFrame(ctrlR, ctrlI, dt, draw) ==
    /\ ~started
    /\ Tick(TRUE, ctrlR, ctrlI, dt, draw)
    /\ TwinTick(ctrlR, ctrlI, dt, draw)
    /\ UNCHANGED <<fl, ex, sched>>

TwinGameFrame(space, ctrlR, ctrlI, dt, draw) ==
    /\ started
    /\ Tick(space, ctrlR, ctrlI, dt, draw)
    /\ TwinTick(ctrlR, ctrlI, dt, draw)
    /\ UNCHANGED <<fl, ex, sched>>

TwinNext ==
    \/ \E ctrlR, ctrlI \in BOOLEAN : TwinMenuFrame(ctrlR, ctrlI)
    \/ \E ctrlR, ctrlI \in BOOLEAN, dt \in DtSet, draw \in Draws :
            TwinStartFrame(ctrlR, ctrlI, dt, draw)
    \/ \E ctrlR, ctrlI \in BOOLEAN, dt \in DtSet, draw \in Draws :
            TwinGameFrame(FALSE, ctrlR, ctrlI, dt, draw)

SpecTwin == TwinInit /\ [][TwinNext]_vars

---------------------------------------------------------------------------
(* SpecSched: the program with the history of its ticks: sched.dts is the
   frame time of every tick so far, sched.spawns the numbers of the ticks
   that spawned a bullet. *)

SchedTick(dt) ==
    sched' = [ dts    |-> Append(sched.dts, dt),
               spawns |-> IF phases'.due
                          THEN Append(sched.spawns, Len(sched.dts) + 1)
                          ELSE sched.spawns ]

SchedMenuFrame(ctrlR, ctrlI) ==
    /\ MenuStep(ctrlR, ctrlI)
    /\ UNCHANGED auxVars

SchedStartFrame(ctrlR, ctrlI, dt, draw) ==
    /\ ~started
    /\ Tick(TRUE, ctrlR, ctrlI, dt, draw)
    /\ SchedTick(dt)
    /\ UNCHANGED <<fl, ex, twin>>

SchedGameFrame(space, ctrlR, ctrlI, dt, draw) ==
    /\ started
    /\ Tick(space, ctrlR, ctrlI, dt, draw)
    /\ SchedTick(dt)
    /\ UNCHANGED <<fl, ex, twin>>

SchedNext ==
    \/ \E ctrlR, ctrlI \in BOOLEAN : SchedMenuFrame(ctrlR, ctrlI)
    \/ \E ctrlR, ctrlI \in BOOLEAN, dt \in DtSet, draw \in Draws :
            SchedStartFrame(ctrlR, ctrlI, dt, draw)
    \/ \E ctrlR, ctrlI \in BOOLEAN, dt \in DtSet, draw \in Draws :
            SchedGameFrame(FALSE, ctrlR, ctrlI, dt, draw)

SpecSched == Init /\ [][SchedNext]_vars

---------------------------------------------------------------------------
(* SpecFine: the program on frames of 0.1 s.  At every missile speed the
   difficulty can reach (50 to 89.6 units a second) a bullet then moves less
   than 10 units a tick.  The running loop has no exit and awaits
   next_frame() at the end of every pass (line 399), so once the game has
   started a next pass always comes. *)

DtFine == {1}

FineLoop ==
    \E ctrlR, ctrlI \in BOOLEAN, dt \in DtFine, draw \in Draws :
        GameFrame(FALSE, ctrlR, ctrlI, dt, draw)

FineNext ==
    \/ \E ctrlR, ctrlI \in BOOLEAN : MenuFrame(ctrlR, ctrlI)
    \/ \E ctrlR, ctrlI \in BOOLEAN, dt \in DtFine, draw \in Draws :
            StartFrame(ctrlR, ctrlI, dt, draw)
    \/ FineLoop

\* What a pass of the running loop does to the clock.  Once the game has
\* started, the steps of FineNext that change the clock are the passes of
\* FineLoop, and a pass is possible exactly when this action is.
FinePass ==
    /\ started
    /\ \E dt \in DtFine : clock + dt <= MaxClock /\ clock' = clock + dt

SpecFine == Init /\ [][FineNext]_vars /\ WF_clock(FinePass)

---------------------------------------------------------------------------
(* Properties *)

Rank(b) == IF b.exploded THEN 2 ELSE IF b.exploding THEN 1 ELSE 0

\* No bullet of registry q is in an earlier life-cycle state than it is in p.
Forward(p, q) ==
    \A i \in DOMAIN p : \A j \in DOMAIN q :
        p[i].id = q[j].id => Rank(q[j]) >= Rank(p[i])

\* The registry at each point of the last tick, in order.
Snapshots ==
    << phases.start, phases.spawned, phases.moved, phases.pruned,
       phases.detonated, phases.final >>

\* C1: over every step (a frame with its commands), a bullet's life-cycle state
\* (Traveling 0, Exploding 1, Exploded 2) never decreases: from the registry
\* before the frame, through every phase of the tick, to the registry after it.
LifecycleForward ==
    [][ LET chain == <<bullets>> \o Snapshots' \o <<bullets'>>
        IN  \A k \in 1..(Len(chain) - 1) : Forward(chain[k], chain[k + 1]) ]_vars

\* A tick in which a bullet went from Exploding to Exploded.
LifecycleWitness ==
    \E i \in DOMAIN phases.spawned :
        /\ phases.spawned[i].exploding
        /\ phases.moved[i].exploded
        /\ phases.start = phases.spawned

\* C2: a bullet that detonates in tick N is in the registry, Exploding and not
\* yet drawn, at the end of tick N; its explosion is drawn exactly once, in tick
\* N+1, whose first pruning pass removes it; and it is absent ever after.
OneTickVisibility ==
    \A id \in DOMAIN detAge :
        /\ detAge[id] = 0 => draws[id] = 0
        /\ detAge[id] = 1 =>
              /\ draws[id] = 0
              /\ \E i \in DOMAIN bullets :
                    bullets[i].id = id /\ bullets[i].exploding
        /\ detAge[id] = 2 =>
              /\ draws[id] = 1
              /\ id \in Ids(phases.spawned)
              /\ id \notin Ids(phases.pruned)
              /\ id \notin Ids(bullets)
        /\ detAge[id] = 3 =>
              /\ draws[id] = 1
              /\ \A k \in 1..Len(Snapshots) : id \notin Ids(Snapshots[k])
              /\ id \notin Ids(bullets)

\* A bullet that detonated, was shown and removed, two or more ticks ago, while
\* another bullet is in flight.
OneTickVisibilityWitness ==
    \E id \in DOMAIN detAge : detAge[id] = 3 /\ bullets # <<>>

\* C3: the number of bullets spawned equals the number of full simulated
\* seconds elapsed, however the time was cut into frames.
SpawnPerSecond == spawnCount = clock \div (1 * TimeScale)

\* C4: once explode() has been called, however often and with whatever
\* arguments it is called again, exactly one explosion record was written, it
\* is the bullet's record, its fields are those of the first call, and no call
\* on an Exploding or Exploded bullet changed the bullet.
ExplodeIdempotent ==
    ex.calls >= 1 =>
        /\ Len(ex.made) = 1
        /\ ex.made[1] = ex.first
        /\ ex.b.explosion = ex.first
        /\ ex.guarded

\* explode() was called three times, the last time on an Exploded bullet.
ExplodeWitness == ex.calls = 3 /\ ex.b.exploded /\ Len(ex.made) = 1

\* C5: a frame that applies reset() alone leaves the five session defaults,
\* whatever the difficulty was before (after any number of escalations, or
\* already the defaults).
ResetRestoresDefaults ==
    (keys.ctrlR /\ (keys.game \/ ~keys.ctrlI)) =>
        /\ difficulty.round = 1
        /\ difficulty.missile_spawn_rate = 30
        /\ difficulty.missile_speed = 500
        /\ difficulty.explosion_size = 10000
        /\ difficulty.missile_rounds = 10

\* A reset after five escalations.
ResetWitness == keys.ctrlR /\ ~keys.ctrlI /\ pre.round = 6 /\ difficulty.round = 1

\* C6: a frame that applies escalate() alone in round r subtracts 0.1 r from
\* the spawn interval, adds 1.1 r to the speed and r to the rounds hint, makes
\* the round r + 1 and subtracts 0.01 (r + 1) from the explosion size; from the
\* defaults the result is round 2, 2.9, 51.1, 99.98 and 11.
EscalateDeltas ==
    (keys.ctrlI /\ ~keys.ctrlR /\ ~keys.game) =>
        /\ difficulty.missile_spawn_rate = pre.missile_spawn_rate - pre.round
        /\ difficulty.missile_speed = pre.missile_speed + 11 * pre.round
        /\ difficulty.missile_rounds = pre.missile_rounds + pre.round
        /\ difficulty.round = pre.round + 1
        /\ difficulty.explosion_size = pre.explosion_size - (pre.round + 1)
        /\ pre.round = 1 =>
              /\ pre.missile_spawn_rate = 30 /\ difficulty.missile_spawn_rate = 29
              /\ pre.missile_speed = 500 /\ difficulty.missile_speed = 511
              /\ pre.explosion_size = 10000 /\ difficulty.explosion_size = 9998
              /\ pre.missile_rounds = 10 /\ difficulty.missile_rounds = 11
              /\ difficulty.round = 2

\* An escalation from round 3.
EscalateWitness ==
    keys.ctrlI /\ ~keys.ctrlR /\ ~keys.game /\ pre.round = 3 /\ difficulty.round = 4

\* C7 as stated: the bullet for target (0,100) and speed 50, stepped with
\* dt = 1/60, first arrives within one tick of 2.0 s, so at no tick before
\* the 119th.
ArrivalAtTwoSeconds == fl.tick < 119 => ~FlightAtTarget(fl)

\* C7: the bullet for target (0,100) and speed 50, stepped with dt = 1/60,
\* first satisfies at_target() on tick 114, which is t = 114/60 = 1.9 s (six
\* ticks before 2.0 s), and on no tick before it.
ArrivalAtTick114 ==
    /\ fl.tick < 114 => ~FlightAtTarget(fl)
    /\ fl.tick = 114 => FlightAtTarget(fl)

\* The flight at its first arrival.
ArrivalWitness == fl.tick = 114 /\ FlightAtTarget(fl)

\* C8: in the registry the frame leaves and at every phase of the tick, a
\* bullet has an explosion record exactly when it is Exploding or Exploded,
\* and never has both flags set.
RecordIffDetonated ==
    /\ phases.final = bullets
    /\ \A k \in 1..Len(Snapshots) : \A i \in DOMAIN Snapshots[k] :
          LET b == Snapshots[k][i]
          IN  /\ (b.explosion # NoExplosion) <=> (b.exploding \/ b.exploded)
              /\ ~(b.exploding /\ b.exploded)

\* A tick that held an Exploded bullet (with its record) and left an
\* Exploding one.
RecordWitness ==
    /\ \E i \in DOMAIN phases.moved :
          phases.moved[i].exploded /\ phases.moved[i].explosion # NoExplosion
    /\ \E i \in DOMAIN bullets :
          bullets[i].exploding /\ bullets[i].explosion # NoExplosion

\* The bullet pushed by the last tick, when it pushed one.
SpawnedBullet == phases.spawned[Len(phases.spawned)]

\* The bullet pushed by the last tick flies at the frame's missile speed.
SpawnUsesSpeed ==
    (keys.game /\ phases.due) =>
        LET v == SpawnedBullet.velocity
            k == PosScale \div (SpeedScale * TimeScale)
        IN  v[1] * v[1] + v[2] * v[2]
              = (k * difficulty.missile_speed) * (k * difficulty.missile_speed)

\* C9 as stated: on every frame, before and after the start, Ctrl+R resets and
\* Ctrl+I escalates the difficulty at once, and a bullet spawned in the frame
\* flies at the updated speed.
CommandsOnAnyFrame ==
    /\ (keys.ctrlR /\ ~keys.ctrlI) => difficulty = DifficultyReset(pre)
    /\ (keys.ctrlI /\ ~keys.ctrlR) => difficulty = IncreaseDifficulty(pre)
    /\ SpawnUsesSpeed

\* C9: Ctrl+R resets the difficulty on every frame, before and after the
\* start, at once; Ctrl+I escalates it only on a menu frame on which Space is
\* not pressed (after Ctrl+R, when both are pressed) and is ignored on the
\* frame Space is pressed and on every frame after it; a bullet spawned in a
\* frame flies at the speed the frame's commands left.
CommandsByFrame ==
    /\ (keys.ctrlR /\ (keys.game \/ ~keys.ctrlI)) => difficulty = DifficultyReset(pre)
    /\ (keys.ctrlR /\ keys.ctrlI /\ ~keys.game) =>
          difficulty = IncreaseDifficulty(DifficultyReset(pre))
    /\ (keys.ctrlI /\ ~keys.ctrlR /\ ~keys.game) => difficulty = IncreaseDifficulty(pre)
    /\ (keys.game /\ ~keys.ctrlR) => difficulty = pre
    /\ (~keys.ctrlI /\ ~keys.ctrlR) => difficulty = pre
    /\ SpawnUsesSpeed

\* A running frame that reset an escalated difficulty and spawned a bullet.
CommandsWitness ==
    /\ keys.game /\ keys.ctrlR /\ phases.due
    /\ pre.missile_speed > 500
    /\ difficulty.missile_speed = 500

\* C10 as stated: the spawn interval is greater than 0 in every state.
SpawnIntervalPositive == difficulty.missile_spawn_rate > 0

\* C10: in round r the spawn interval is 3.0 - 0.05 r (r - 1); it is greater
\* than 0 exactly while r <= 8, that is after at most seven escalations since
\* the last reset.
SpawnIntervalByRound ==
    /\ 2 * difficulty.missile_spawn_rate
         = 60 - difficulty.round * (difficulty.round - 1)
    /\ difficulty.missile_spawn_rate > 0 <=> difficulty.round <= 8

\* The last round with a positive spawn interval, in the menu.
SpawnIntervalWitness ==
    difficulty.round = 8 /\ difficulty.missile_spawn_rate = 2 /\ keys.ctrlI

\* A bullet without the reading of get_time() held in its explosion record.
Untimed(b) ==
    IF b.explosion = NoExplosion THEN b
    ELSE [ b EXCEPT !.explosion.spawn_time = 0 ]

UntimedAll(bs) == [ i \in DOMAIN bs |-> Untimed(bs[i]) ]

\* C11: two runs fed the same frame times, the same keys and the same random
\* draws hold, after every tick, the same bullets in the same order with the
\* same positions, velocities and life-cycle flags, whatever get_time()
\* returned in each run; so do their accumulators and difficulties.
RunsAgree ==
    /\ UntimedAll(twin.bullets) = UntimedAll(bullets)
    /\ twin.time_since_spawn = time_since_spawn
    /\ twin.spawnCount = spawnCount
    /\ twin.difficulty = difficulty

\* Both runs hold two bullets, one of them detonated, and the two runs'
\* explosion records carry different readings of get_time().
RunsAgreeWitness ==
    /\ Len(bullets) >= 2
    /\ \E i \in DOMAIN bullets :
        /\ bullets[i].exploding
        /\ i \in DOMAIN twin.bullets
        /\ twin.bullets[i].exploding
        /\ twin.bullets[i].explosion.spawn_time # bullets[i].explosion.spawn_time

\* The bullet of registry bs with the given id.
Find(bs, id) == bs[CHOOSE i \in DOMAIN bs : bs[i].id = id]

\* C12: within every tick the spawn decision comes first, then the movement of
\* every bullet (the new one included), then the pruning of the Exploded, then
\* the arrival check and explode(); a bullet Exploding at the start of the
\* tick is finalized before the pruning, and the arrival check sees the
\* position after this tick's movement.
PhaseOrder ==
    /\ IF phases.due
       THEN LET n == Len(phases.spawned)
            IN  /\ n = Len(phases.start) + 1
                /\ SubSeq(phases.spawned, 1, n - 1) = phases.start
                /\ phases.spawned[n].position = phases.spawned[n].source
                /\ phases.moved[n].position # phases.moved[n].source
       ELSE phases.spawned = phases.start
    /\ Len(phases.moved) = Len(phases.spawned)
    /\ \A i \in DOMAIN phases.spawned :
        /\ phases.moved[i].id = phases.spawned[i].id
        /\ phases.moved[i].exploded <=> phases.spawned[i].exploding
        /\ ~phases.moved[i].exploding
    /\ Ids(phases.pruned) =
           { phases.moved[i].id : i \in { j \in DOMAIN phases.moved :
                                             ~phases.moved[j].exploded } }
    /\ \A i \in DOMAIN phases.start :
           phases.start[i].exploding => phases.start[i].id \notin Ids(phases.pruned)
    /\ Len(phases.detonated) = Len(phases.pruned)
    /\ \A i \in DOMAIN phases.pruned :
        LET m == Find(phases.moved, phases.pruned[i].id)
            b == phases.detonated[i]
        IN  /\ phases.pruned[i] = m
            /\ b.id = m.id
            /\ b.position = m.position
            /\ b.exploding <=> AtTarget(m)
            /\ b.exploding => b.explosion.position = m.position
    /\ bullets = phases.final

\* A tick that spawned a bullet, moved two and detonated one of them.
PhaseOrderWitness ==
    /\ phases.due
    /\ Len(phases.moved) >= 2
    /\ \E i \in DOMAIN phases.detonated : phases.detonated[i].exploding

\* C13: a tick changes the position of a bullet only if the bullet is
\* Traveling at the start of the tick: a bullet that starts the tick Exploding
\* or Exploded has the same position after the movement phase.
MovesOnlyTraveling ==
    \A i \in DOMAIN phases.start :
        Rank(phases.start[i]) > 0 =>
            phases.moved[i].position = phases.start[i].position

\* C14: the second prune of a tick removes nothing; a bullet detonated in a
\* tick is Exploding, not Exploded, and is in the registry at the end of that
\* tick; the first prune of the next tick removes it; between ticks the
\* registry holds only Traveling and Exploding bullets.
SecondPruneIdle ==
    /\ phases.final = phases.detonated
    /\ \A i \in DOMAIN phases.detonated : ~phases.detonated[i].exploded
    /\ \A i \in DOMAIN bullets : ~bullets[i].exploded
    /\ \A id \in DOMAIN detAge :
        /\ detAge[id] = 1 => Rank(Find(bullets, id)) = 1
        /\ detAge[id] = 2 =>
              /\ Rank(Find(phases.start, id)) = 1
              /\ Rank(Find(phases.moved, id)) = 2
              /\ id \notin Ids(phases.pruned)

\* The tick after a detonation: the first prune removed the detonated bullet
\* and the second prune had another bullet to look at.
SecondPruneWitness ==
    /\ \E id \in DOMAIN detAge : detAge[id] = 2 /\ id \in Ids(phases.moved)
    /\ phases.detonated # <<>>
    /\ phases.final = phases.detonated

\* The ticks on which an accumulator that starts at acc, is increased by each
\* frame time and is set to 0 when it strictly exceeds one second, exceeds
\* one second; k is the number of the first tick of dts.
RECURSIVE SpawnTicks(_, _, _)
SpawnTicks(dts, acc, k) ==
    IF dts = <<>> THEN <<>>
    ELSE IF acc + Head(dts) > 1 * TimeScale
         THEN <<k>> \o SpawnTicks(Tail(dts), 0, k + 1)
         ELSE SpawnTicks(Tail(dts), acc + Head(dts), k + 1)

SameMotion(p, q) ==
    \A i \in DOMAIN p : \A j \in DOMAIN q :
        p[i].id = q[j].id =>
            /\ q[j].source = p[i].source
            /\ q[j].target = p[i].target
            /\ q[j].velocity = p[i].velocity

\* C16: over every step (a menu frame or a tick, with its Reset or Escalate),
\* the source, target and velocity of a bullet stay what they were: from the
\* registry before the frame, through every phase of the tick, to the
\* registry after it.
MotionFixedAtCreation ==
    [][ LET chain == <<bullets>> \o Snapshots' \o <<bullets'>>
        IN  \A k \in 1..(Len(chain) - 1) : SameMotion(chain[k], chain[k + 1]) ]_vars

\* A tick with a Reset that changed the missile speed while a bullet spawned
\* at the escalated speed was in flight: the bullet ends the tick in the
\* registry with the velocity of the escalated speed.
MotionFixedWitness ==
    /\ keys.game
    /\ keys.ctrlR
    /\ pre.missile_speed # difficulty.missile_speed
    /\ \E i \in DOMAIN phases.start : \E j \in DOMAIN bullets :
        /\ bullets[j].id = phases.start[i].id
        /\ bullets[j].velocity =
               SpawnVelocity(bullets[j].source, bullets[j].target, pre.missile_speed)
        /\ bullets[j].velocity #
               SpawnVelocity(bullets[j].source, bullets[j].target,
                             difficulty.missile_speed)

\* C17: every bullet the arrival check looks at is Traveling, so explode() is
\* only called on a Traveling bullet and its guard never returns early; a
\* bullet explode() is called on has not detonated before.
ExplodeOnlyTraveling ==
    \A i \in DOMAIN phases.pruned :
        /\ Rank(phases.pruned[i]) = 0
        /\ phases.pruned[i].explosion = NoExplosion
        /\ AtTarget(phases.pruned[i]) =>
              /\ detAge[phases.pruned[i].id] = 1
              /\ phases.detonated[i] # phases.pruned[i]

\* A tick whose arrival check called explode() on one bullet and passed over
\* another.
ExplodeOnlyTravelingWitness ==
    \E i, j \in DOMAIN phases.pruned :
        /\ AtTarget(phases.pruned[i])
        /\ phases.detonated[i].exploding
        /\ ~AtTarget(phases.pruned[j])

\* The bullet is outside the arrival radius and is not getting closer: the
\* vector to its target has no component along its velocity.
Overshot(b) ==
    /\ ~AtTarget(b)
    /\ (b.target[1] - b.position[1]) * b.velocity[1]
         + (b.target[2] - b.position[2]) * b.velocity[2] <= 0

\* Every bullet of p that is not Exploded is in q.
KeptUnlessExploded(p, q) ==
    \A i \in DOMAIN p : ~p[i].exploded => p[i].id \in Ids(q)

\* C18: a bullet leaves the registry only after detonating: over every step
\* no phase of the tick removes a bullet that is not Exploded, a bullet
\* Traveling before the frame is in the registry after it, every bullet ever
\* spawned that has not detonated is in the registry, Traveling, and a
\* Traveling bullet that has passed its target outside the arrival radius
\* is, after the frame, still in the registry, Traveling and past its target.
LeavesOnlyByDetonating ==
    [][ /\ LET chain == <<bullets>> \o Snapshots' \o <<bullets'>>
           IN  \A k \in 1..(Len(chain) - 1) :
                   KeptUnlessExploded(chain[k], chain[k + 1])
        /\ \A id \in DOMAIN detAge' :
               detAge'[id] = 0 =>
                   /\ id \in Ids(bullets')
                   /\ Rank(Find(bullets', id)) = 0
        /\ \A i \in DOMAIN bullets :
               Rank(bullets[i]) = 0 /\ Overshot(bullets[i]) =>
                   /\ bullets[i].id \in Ids(bullets')
                   /\ Rank(Find(bullets', bullets[i].id)) = 0
                   /\ Overshot(Find(bullets', bullets[i].id)) ]_vars

\* A bullet that passed its target two or more ticks ago is in the registry,
\* Traveling, after a bullet spawned later has detonated.
LeavesOnlyWitness ==
    \E i \in DOMAIN bullets :
        /\ Rank(bullets[i]) = 0
        /\ Overshot(bullets[i])
        /\ \E j \in DOMAIN phases.start :
               phases.start[j].id = bullets[i].id /\ Overshot(phases.start[j])
        /\ \E id \in DOMAIN detAge : id > bullets[i].id /\ detAge[id] >= 1

\* The displacement of every bullet of bs in a tick of frame time dt is less
\* than 10 units.
ShortSteps(bs, dt) ==
    \A i \in DOMAIN bs :
        LET sx == bs[i].velocity[1] * dt
            sy == bs[i].velocity[2] * dt
        IN  /\ Abs(sx) < 10 * PosScale
            /\ Abs(sy) < 10 * PosScale
            /\ sx * sx + sy * sy < (10 * PosScale) * (10 * PosScale)

\* Bullet id detonated n - 1 ticks ago (n = 1: in the last tick).
DetonatedFor(id, n) == id \in DOMAIN detAge /\ detAge[id] = n

\* C19: with frame times of 0.1 s, at which every bullet moves less than 10
\* units a tick, every bullet spawned early enough for its flight to fit
\* before MaxClock (the longest modelled path, 75 units at 5 units a tick,
\* takes 16 ticks) eventually detonates and is in the registry Exploding, and
\* a bullet that has detonated before the last modelled tick is removed by
\* the next tick.
EveryBulletArrives ==
    \A id \in 1..(MaxClock \div (1 * TimeScale + 1)) :
        /\ (id \in Ids(bullets) /\ clock <= MaxClock - 16)
              ~> (id \in Ids(bullets) /\ DetonatedFor(id, 1)
                    /\ Rank(Find(bullets, id)) = 1)
        /\ (DetonatedFor(id, 1) /\ clock < MaxClock)
              ~> (DetonatedFor(id, 2) /\ id \notin Ids(bullets))

\* A bullet that moved more than 8 and less than 10 units a tick has detonated
\* and has just been removed.
EveryBulletArrivesWitness ==
    \E id \in DOMAIN detAge :
        /\ detAge[id] = 2
        /\ id \notin Ids(bullets)
        /\ \E i \in DOMAIN phases.start :
            /\ phases.start[i].id = id
            /\ phases.start[i].velocity[2] > 8 * PosScale
            /\ ShortSteps(phases.start, 1)
=============================================================================
